---- MODULE Spec2Model ----
(***************************************************************************)
(* A model of SimpleTownBike's BLE manager (src/ble_manager.py), of the    *)
(* run_async helper (src/utils.py) the application calls it through, and   *)
(* of the environment it talks to: the clock, the BLE transport (bleak)    *)
(* and the asyncio tasks and event loops.                                  *)
(*                                                                         *)
(* Every public coroutine of BLEManager is one action that models the      *)
(* whole call.  A transport call that can fail is a choice, made in the    *)
(* action, of the call at which the failure happens.                       *)
(***************************************************************************)
EXTENDS Integers, Sequences, FiniteSets, TLC

VARIABLES
    is_test_mode,      \* BLEManager.is_test_mode (BLE_TEST_MODE), fixed at construction
    runner,            \* how coroutines are run: "app" (run_async, a fresh loop per call) or "loop" (one running loop)
    client,            \* BLEManager.client: None or the index of a BleakClient in clients
    connected_device,  \* BLEManager.connected_device: None or an address
    event_loop,        \* BLEManager.event_loop: None or the status of the loop it refers to
    mock_data_task,    \* BLEManager.mock_data_task: None or the index of a task in tasks
    metrics,           \* BLEManager.metrics: metric -> [values, timestamps]
    clients,           \* every BleakClient created so far: [dev, link, subs]
    tasks,             \* every asyncio task created so far: [st, loop, wake]
    now,               \* time.time()
    ticks,             \* how many times the clock has advanced
    inbox,             \* notifications the transport is about to deliver
    pc,                \* the statements left to run of an update of the store that is under way, per thread
    snapshot,          \* what get_metrics_data returned to the reader, and the store as it was then
    logged,            \* the errors the notification handlers have caught and logged (logger.error)
    last               \* the last operation: what it was given, what it returned, the store before it

vars == <<is_test_mode, runner, client, connected_device, event_loop, mock_data_task,
          metrics, clients, tasks, now, ticks, inbox, pc, snapshot, logged, last>>

mgr == <<client, connected_device, event_loop, mock_data_task>>

\* What belongs to the threads that read and update the store from outside the manager.
app == <<pc, snapshot>>

---------------------------------------------------------------------------
(* Bounds of the model *)

MaxLen == 17          \* longest notification payload, in bytes
MaxSamples == 2       \* appends stop when a series they would grow holds this many samples
MaxTicks == 1         \* how many times the clock jumps ahead
MaxClients == 2       \* how many BleakClient objects are created
MaxTasks == 2         \* how many generator tasks are created

(* Program constants *)

RETENTION_SECONDS == 300
MOCK_PERIOD == 1
last_update == 0      \* time.time() at construction; never assigned again

None == "None"
NoClient == 0         \* self.client = None
NoTask == 0           \* self.mock_data_task = None

FTMS_SERVICE_UUID == "1826"
INDOOR_BIKE_DATA_UUID == "2ad2"
HEART_RATE_SERVICE_UUID == "180d"
HEART_RATE_MEASUREMENT_UUID == "2a37"

Min(a, b) == IF a < b THEN a ELSE b
Max(a, b) == IF a > b THEN a ELSE b

METRICS == {"heart_rate", "power", "avg_power", "cadence", "avg_cadence",
            "speed", "avg_speed", "distance", "resistance"}

EmptySeries == [values |-> <<>>, timestamps |-> <<>>]
EmptyStore == [m \in METRICS |-> EmptySeries]

\* No update of the store is under way: neither thread has statements left to run.
Idle == [producer |-> <<>>, script |-> <<>>]

\* The reader holds nothing that get_metrics_data returned.
NoSnapshot == [ref |-> None, taken |-> EmptyStore]

\* A value of a series is the rational n/d: the code divides a raw integer by 100 or by 2.
Num(n, d) == [n |-> n, d |-> d]

---------------------------------------------------------------------------
(* Bytes *)

\* data[i:j] of Python: the bytes at offsets i .. j-1, cut at the end of data.
Slice(data, i, j) ==
    LET hi == Min(j, Len(data))
    IN  [k \in 1 .. Max(0, hi - i) |-> data[i + k]]

\* int.from_bytes(b, byteorder='big'): a decoder that reads the bytes in the wrong order.
RECURSIVE int_from_bytes_big(_)
int_from_bytes_big(b) ==
    IF b = <<>> THEN 0 ELSE b[Len(b)] + 256 * int_from_bytes_big(SubSeq(b, 1, Len(b) - 1))

RECURSIVE int_from_bytes_rec(_)
int_from_bytes_rec(b) ==
    IF b = <<>> THEN 0 ELSE b[1] + 256 * int_from_bytes_rec(Tail(b))

\* int.from_bytes(b, byteorder='little'); of the empty bytes it is 0.
int_from_bytes(b) == int_from_bytes_rec(b)

BitSet(flags, bit) == (flags \div (2 ^ bit)) % 2 = 1

---------------------------------------------------------------------------
(* _handle_indoor_bike_data: the fields, in the order of the code's ifs *)

FIELDS == <<
    [bit |-> 1, metric |-> "avg_speed",   width |-> 2, div |-> 100, advance |-> 2],
    [bit |-> 2, metric |-> "cadence",     width |-> 2, div |-> 2,   advance |-> 2],
    [bit |-> 3, metric |-> "avg_cadence", width |-> 2, div |-> 2,   advance |-> 2],
    [bit |-> 4, metric |-> "distance",    width |-> 3, div |-> 1,   advance |-> 3],
    [bit |-> 5, metric |-> "resistance",  width |-> 2, div |-> 1,   advance |-> 2],
    [bit |-> 6, metric |-> "power",       width |-> 2, div |-> 1,   advance |-> 2],
    [bit |-> 7, metric |-> "avg_power",   width |-> 2, div |-> 1,   advance |-> 0] >>

START_INDEX == 2

\* The block with byteorder='big'.
FieldValue_big(data, current_index, f) ==
    Num(int_from_bytes_big(Slice(data, current_index, current_index + f.width)), f.div)

\* One `if flags & (1 << bit)` block: the bytes read at the cursor, scaled.
FieldValue(data, current_index, f) ==
    Num(int_from_bytes(Slice(data, current_index, current_index + f.width)), f.div)

\* The ifs from the k-th on: metrics_data (metric, value pairs in insertion order)
\* given the cursor reached so far.
RECURSIVE ParseFields(_, _, _, _)
ParseFields(data, k, current_index, metrics_data) ==
    IF k > Len(FIELDS) THEN metrics_data
    ELSE LET f == FIELDS[k]
         IN  IF BitSet(data[1], f.bit)
             THEN ParseFields(data, k + 1, current_index + f.advance,
                              Append(metrics_data, <<f.metric, FieldValue(data, current_index, f)>>))
             ELSE ParseFields(data, k + 1, current_index, metrics_data)

\* self.metrics[metric]['values'].append(value); ...['timestamps'].append(t)
AppendSample(s, value, t) ==
    [values |-> Append(s.values, value), timestamps |-> Append(s.timestamps, t)]

\* for metric, value in metrics_data.items(): append
RECURSIVE UpdateMetrics(_, _, _)
UpdateMetrics(store, metrics_data, t) ==
    IF metrics_data = <<>> THEN store
    ELSE LET m == Head(metrics_data)[1]
             v == Head(metrics_data)[2]
         IN  UpdateMetrics([store EXCEPT ![m] = AppendSample(@, v, t)], Tail(metrics_data), t)

\* if self.event_loop: self.event_loop.call_soon_threadsafe(lambda: None)
\* raises RuntimeError('Event loop is closed') on a closed loop.
CallSoonRaises == event_loop = "closed"

\* A handler whose except clause does not cover the decoding: the IndexError leaves
\* the handler.
HandlerResult_uncaught(decoded) ==
    IF ~decoded THEN "escaped" ELSE IF CallSoonRaises THEN "loop_error" ELSE "ok"

\* What a handler's try block ends with: nothing, or an exception that is caught and
\* logged: the IndexError of the decoding, or the RuntimeError of the closed loop.
HandlerResult(decoded) ==
    IF ~decoded THEN "decode_error" ELSE IF CallSoonRaises THEN "loop_error" ELSE "ok"

\* except Exception as e: logger.error(f"Error processing ... data: {e}")
Logged(handler, result) ==
    IF result = "ok" THEN logged ELSE logged \cup {[handler |-> handler, error |-> result]}

\* The record of an operation of the manager: its name, input and result, the time and
\* the store before it.
Op(op, arg, ret, aux) ==
    [op |-> op, arg |-> arg, time |-> now, ret |-> ret, pre |-> metrics, aux |-> aux]

\* The whole handler.  data[0] raises IndexError on an empty payload, before anything
\* is appended; whatever is raised is caught and logged.
handle_indoor_bike_data(data) ==
    LET decoded == Len(data) >= 1
        store == IF decoded THEN UpdateMetrics(metrics, ParseFields(data, 1, START_INDEX, <<>>), now)
                 ELSE metrics
    IN  /\ metrics' = store
        /\ logged' = Logged("bike", HandlerResult(decoded))
        /\ last' = Op("bike", data, HandlerResult(decoded), None)

\* _handle_heart_rate_data: data[1] raises IndexError on a payload shorter than 2.
HeartRateOfFirstByte(data) == data[1]

HeartRateOf(data) == data[2]

handle_heart_rate_data(data) ==
    LET decoded == Len(data) >= 2
        store == IF decoded
                 THEN [metrics EXCEPT !["heart_rate"] = AppendSample(@, Num(HeartRateOf(data), 1), now)]
                 ELSE metrics
    IN  /\ metrics' = store
        /\ logged' = Logged("hr", HandlerResult(decoded))
        /\ last' = Op("hr", data, HandlerResult(decoded), None)

\* The model stops appending to a series that holds MaxSamples samples.
Room(ms) == \A m \in ms : Len(metrics[m].values) < MaxSamples

BikeMetrics == {FIELDS[k].metric : k \in 1 .. Len(FIELDS)}

\* The transport calls the handler registered for the characteristic.
DispatchHeartRate ==
    /\ inbox # <<>>
    /\ Head(inbox).char = HEART_RATE_MEASUREMENT_UUID
    /\ Room({"heart_rate"})
    /\ handle_heart_rate_data(Head(inbox).data)
    /\ inbox' = Tail(inbox)
    /\ UNCHANGED <<is_test_mode, runner, mgr, clients, tasks, now, ticks, app>>

DispatchIndoorBike ==
    /\ inbox # <<>>
    /\ Head(inbox).char = INDOOR_BIKE_DATA_UUID
    /\ Room(BikeMetrics)
    /\ handle_indoor_bike_data(Head(inbox).data)
    /\ inbox' = Tail(inbox)
    /\ UNCHANGED <<is_test_mode, runner, mgr, clients, tasks, now, ticks, app>>

---------------------------------------------------------------------------
(* Notification payloads *)

\* The byte at (1-based) position i of the payload family `seed`: distinct at
\* neighbouring positions, so that byte order and offsets show in the decoded value.
PatternByte(seed, i) == (seed * i + 7 * i + seed) % 256

Payload(flags, len, seed) ==
    [i \in 1 .. len |-> IF i = 1 THEN flags ELSE PatternByte(seed, i)]

Seeds == {3, 200}

\* The payloads of the specification's examples: heart rate 140; cadence 50 rpm and power 180 W.
HR_EXAMPLE == <<0, 140>>
BIKE_EXAMPLE == <<68, 0, 100, 0, 180, 0>>

AllPayloads ==
    {Payload(flags, len, seed) : flags \in 0 .. 255, len \in 0 .. MaxLen, seed \in Seeds}
        \cup {HR_EXAMPLE, BIKE_EXAMPLE}

\* A store in which every series holds one earlier sample.
OneEachStore == [m \in METRICS |-> [values |-> <<Num(1, 1)>>, timestamps |-> <<0>>]]

NoOp == [op |-> "init", arg |-> <<>>, time |-> 0, ret |-> None, pre |-> EmptyStore, aux |-> None]

---------------------------------------------------------------------------
(* is_connected and the BLE transport *)

\* The devices in range: the services each one offers and their characteristics.
Services(address) ==
    CASE address = "combo" ->
            <<[uuid |-> FTMS_SERVICE_UUID, chars |-> <<INDOOR_BIKE_DATA_UUID, "2acc">>],
              [uuid |-> HEART_RATE_SERVICE_UUID, chars |-> <<HEART_RATE_MEASUREMENT_UUID>>]>>
      [] address = "rower" ->
            <<[uuid |-> FTMS_SERVICE_UUID, chars |-> <<"2ad1">>]>>

Addresses == {"combo", "rower"}

RECURSIVE Concat(_)
Concat(seqs) == IF seqs = <<>> THEN <<>> ELSE Head(seqs) \o Concat(Tail(seqs))

\* for service in self.client.services: for char in service.characteristics
Characteristics(address) ==
    Concat([k \in 1 .. Len(Services(address)) |-> Services(address)[k].chars])

Range(q) == {q[k] : k \in 1 .. Len(q)}

\* The characteristic connect_device subscribes to for one service, if any:
\* self.client.services.get_characteristic(uuid) looks among all the device's services.
SubscribedFor(address, service) ==
    IF service.uuid = FTMS_SERVICE_UUID
    THEN IF INDOOR_BIKE_DATA_UUID \in Range(Characteristics(address))
         THEN <<INDOOR_BIKE_DATA_UUID>> ELSE <<>>
    ELSE IF service.uuid = HEART_RATE_SERVICE_UUID
    THEN IF HEART_RATE_MEASUREMENT_UUID \in Range(Characteristics(address))
         THEN <<HEART_RATE_MEASUREMENT_UUID>> ELSE <<>>
    ELSE <<>>

\* The start_notify calls of connect_device, in order.
ToSubscribe(address) ==
    Concat([k \in 1 .. Len(Services(address)) |-> SubscribedFor(address, Services(address)[k])])

is_connected ==
    IF is_test_mode THEN connected_device # None
    ELSE client # NoClient /\ clients[client].link

\* The state of the loop a call ran on, once the call is over.  run_async closes its
\* loop after run_until_complete returns; when the coroutine raises, run_until_complete
\* raises and loop.close() is not reached: the loop is left stopped, never closed.
LoopAfter(ret) ==
    IF runner = "loop" THEN "running"
    ELSE IF ret \in {"True", "False"} THEN "closed" ELSE "stopped"

---------------------------------------------------------------------------
(* The simulated generator *)

Clamp(lo, hi, x) == Max(lo, Min(hi, x))

\* a/b + c/d
AddR(x, y) == Num(x.n * y.d + y.n * x.d, x.d * y.d)

RECURSIVE SumR(_)
SumR(q) == IF q = <<>> THEN Num(0, 1) ELSE AddR(Head(q), SumR(Tail(q)))

\* np.mean(values[-10:] if values else [x])
TrailingMean(values, x) ==
    LET q == IF values = <<>> THEN <<x>>
             ELSE SubSeq(values, Max(1, Len(values) - 9), Len(values))
        s == SumR(q)
    IN  Num(s.n, s.d * Len(q))

\* max(lo, min(hi, x)) of a rational x.
ClampR(lo, hi, x) ==
    IF x.n < lo * x.d THEN Num(lo, 1) ELSE IF x.n > hi * x.d THEN Num(hi, 1) ELSE x

\* The sines of _generate_mock_data lie in [-1, 1]; the model draws every sine of one
\* call from these values.
MockPhases == {0, 1}

\* _generate_mock_data; t = current_time - self.last_update.
generate_mock_data(phase, current_time) ==
    LET t == current_time - last_update
        hr == 120 + 20 * phase
        power == 180 + 40 * phase
        cadence == 75 + 10 * phase
        speed == 25 + 5 * phase
        resistance == 8 + 2 * phase
    IN  << <<"heart_rate", Num(Clamp(60, 200, hr), 1)>>,
           <<"power", Num(Clamp(0, 400, power), 1)>>,
           <<"avg_power", ClampR(0, 400, TrailingMean(metrics["power"].values, Num(power, 1)))>>,
           <<"cadence", Num(Clamp(0, 120, cadence), 1)>>,
           <<"avg_cadence", ClampR(0, 120, TrailingMean(metrics["cadence"].values, Num(cadence, 1)))>>,
           <<"speed", Num(Clamp(0, 50, speed), 1)>>,
           <<"avg_speed", ClampR(0, 50, TrailingMean(metrics["speed"].values, Num(speed, 1)))>>,
           <<"distance", Num(t * speed * 10, 36)>>,
           <<"resistance", Num(Clamp(1, 20, resistance), 1)>> >>

\* while timestamps and timestamps[0] < cutoff: values.pop(0); timestamps.pop(0)
RECURSIVE Evict(_, _)
Evict(s, cutoff) ==
    IF s.timestamps # <<>> /\ s.timestamps[1] < cutoff
    THEN Evict([values |-> Tail(s.values), timestamps |-> Tail(s.timestamps)], cutoff)
    ELSE s

\* One metric of the for loop of _mock_data_loop: append, then keep the last 5 minutes.
AppendAndEvict(s, value, current_time) ==
    Evict(AppendSample(s, value, current_time), current_time - RETENTION_SECONDS)

RECURSIVE MockBatch(_, _, _)
MockBatch(store, mock_data, current_time) ==
    IF mock_data = <<>> THEN store
    ELSE LET m == Head(mock_data)[1]
             v == Head(mock_data)[2]
         IN  MockBatch([store EXCEPT ![m] = AppendAndEvict(@, v, current_time)],
                       Tail(mock_data), current_time)

\* One pass of the body of `while self.is_connected()`, up to the sleep.
MockPass(phase, current_time) ==
    MockBatch(metrics, generate_mock_data(phase, current_time), current_time)

Task(st, loop, wake) == [st |-> st, loop |-> loop, wake |-> wake]

\* A step of a generator task on the running loop: its first step, its wake-up when
\* the sleep is over (the clock is then at the wake-up time at least), or the delivery
\* of a requested cancellation.
MockStep(i) ==
    /\ tasks[i].loop = "running"
    /\ tasks[i].st \in {"ready", "sleeping", "cancelling"}
    /\ now' = IF tasks[i].st = "sleeping" THEN Max(now, tasks[i].wake) ELSE now
    /\ IF tasks[i].st = "cancelling"
       THEN /\ tasks' = [tasks EXCEPT ![i].st = "cancelled"]
            /\ metrics' = metrics
            /\ last' = Op("mock", i, "cancelled", None)
       ELSE IF is_connected
       THEN /\ Room(METRICS)
            /\ \E phase \in MockPhases : metrics' = MockPass(phase, now')
            /\ tasks' = [tasks EXCEPT ![i] = Task("sleeping", "running", now' + MOCK_PERIOD)]
            /\ last' = [Op("mock", i, "appended", None) EXCEPT !.time = now']
       ELSE /\ tasks' = [tasks EXCEPT ![i].st = "finished"]
            /\ metrics' = metrics
            /\ last' = Op("mock", i, "finished", None)
    /\ UNCHANGED <<is_test_mode, runner, mgr, clients, ticks, inbox, app, logged>>

MockLoop == \E i \in 1 .. Len(tasks) : MockStep(i)

---------------------------------------------------------------------------
(* connect_device *)

Callbacks == {None, "ok", "bleak", "other"}

\* The test-mode branch.  The callback is awaited outside any try: what it raises
\* escapes.  Under run_async the new task runs its first pass before the loop stops.
connect_test(address, callback) ==
    LET ret == IF callback \in {"bleak", "other"} THEN "escaped" ELSE "True"
        inline == runner = "app"
    IN  /\ Len(tasks) < MaxTasks
        /\ connected_device' = address
        /\ event_loop' = LoopAfter(ret)
        /\ mock_data_task' = Len(tasks) + 1
        /\ client' = client
        /\ clients' = clients
        /\ IF inline
           THEN /\ Room(METRICS)
                /\ \E phase \in MockPhases : metrics' = MockPass(phase, now)
                /\ tasks' = Append(tasks, Task("sleeping", LoopAfter(ret), now + MOCK_PERIOD))
           ELSE /\ metrics' = metrics
                /\ tasks' = Append(tasks, Task("ready", "running", now))
        /\ last' = Op("connect", [address |-> address, callback |-> callback, fail |-> 0, kind |-> None],
                      ret, None)

\* The real branch.  The transport calls are 1: client.connect(), 2: get_services(),
\* 2+j: the j-th start_notify; `fail` is the call that raises (0: none) and `kind`
\* what it raises, a BleakError or something else; then the callback, which returns or
\* raises.
connect_real(address, callback, fail, kind) ==
    LET subscribe == ToSubscribe(address)
        failed == fail # 0 \/ callback \in {"bleak", "other"}
        raised == IF fail # 0 THEN kind ELSE callback
        ret == IF ~failed THEN "True" ELSE IF raised = "bleak" THEN "BNA" ELSE "False"
        linked == fail # 1
        started == IF fail = 0 THEN Len(subscribe) ELSE IF fail <= 2 THEN 0 ELSE fail - 3
        new == [dev |-> address, link |-> linked, subs |-> {subscribe[j] : j \in 1 .. started}]
    IN  /\ Len(clients) < MaxClients
        /\ fail \in 0 .. 2 + Len(subscribe)
        /\ event_loop' = LoopAfter(ret)
        /\ clients' = Append(clients, new)
        /\ client' = Len(clients) + 1
        /\ connected_device' = IF linked THEN address ELSE connected_device
        /\ mock_data_task' = mock_data_task
        /\ tasks' = tasks
        /\ metrics' = metrics
        /\ last' = Op("connect", [address |-> address, callback |-> callback, fail |-> fail,
                                  kind |-> IF fail # 0 THEN kind ELSE None],
                      ret, None)

connect_device(address, callback, fail, kind) ==
    /\ IF is_test_mode
       THEN fail = 0 /\ kind = "bleak" /\ connect_test(address, callback)
       ELSE connect_real(address, callback, fail, kind)
    /\ UNCHANGED <<is_test_mode, runner, now, ticks, inbox, app, logged>>

Connect ==
    \E address \in Addresses, callback \in Callbacks, fail \in 0 .. 4 :
        \E kind \in IF fail = 0 THEN {"bleak"} ELSE {"bleak", "other"} :
            connect_device(address, callback, fail, kind)

---------------------------------------------------------------------------
(* disconnect_device *)

\* Task.cancel() of asyncio: on a task suspended in a sleep it cancels the sleep's
\* future, whose wake-up callback is scheduled with loop.call_soon; on a closed loop
\* that raises RuntimeError, with the future already cancelled.  A task that is not
\* suspended, or whose future is already cancelled, is only marked to be cancelled.
CancelRaises(t) == t.st = "sleeping" /\ t.loop = "closed"

Cancelled(t) ==
    CASE t.st = "sleeping" -> [t EXCEPT !.st = IF t.loop = "closed" THEN "stuck" ELSE "cancelling"]
      [] t.st = "ready" -> [t EXCEPT !.st = "cancelling"]
      [] OTHER -> t

\* The test-mode branch.
disconnect_test ==
    LET raises == mock_data_task # NoTask /\ CancelRaises(tasks[mock_data_task])
    IN  /\ tasks' = IF mock_data_task # NoTask
                    THEN [tasks EXCEPT ![mock_data_task] = Cancelled(@)]
                    ELSE tasks
        /\ IF raises
           THEN /\ UNCHANGED mgr
                /\ last' = Op("disconnect", 0, "False", [task |-> mock_data_task])
           ELSE /\ mock_data_task' = NoTask
                /\ connected_device' = None
                /\ event_loop' = None
                /\ client' = client
                /\ last' = Op("disconnect", 0, "True", [task |-> mock_data_task])
        /\ clients' = clients

\* The subscriptions left after the stop_notify calls on the first n characteristics.
StoppedUpTo(subs, chars, n) == subs \ {chars[k] : k \in 1 .. n}

\* The real branch.  The transport calls are the stop_notify of every characteristic
\* of every service, in order, then client.disconnect(); `fail` is the call that
\* raises (0: none).  `link_after` is the state of the link when disconnect() raised.
disconnect_real(fail, link_after) ==
    IF client # NoClient /\ clients[client].link
    THEN LET c == clients[client]
             chars == Characteristics(c.dev)
             stopped == IF fail = 0 THEN Len(chars) ELSE fail - 1
             left == StoppedUpTo(c.subs, chars, stopped)
             issued == fail = 0 \/ fail = Len(chars) + 1
             aux == [client |-> client, issued |-> issued, active_at_disconnect |-> left]
         IN  /\ fail \in 0 .. Len(chars) + 1
             /\ IF fail = 0
                THEN /\ clients' = [clients EXCEPT ![client] = [@ EXCEPT !.link = FALSE, !.subs = left]]
                     /\ client' = NoClient
                     /\ connected_device' = None
                     /\ event_loop' = None
                     /\ last' = Op("disconnect", fail, "True", aux)
                ELSE /\ clients' = [clients EXCEPT ![client] =
                                       [@ EXCEPT !.link = IF issued THEN link_after ELSE TRUE,
                                                 !.subs = IF issued /\ ~link_after THEN {} ELSE left]]
                     /\ UNCHANGED <<client, connected_device, event_loop>>
                     /\ last' = Op("disconnect", fail, "False", aux)
             /\ UNCHANGED <<mock_data_task, tasks>>
    ELSE /\ fail = 0 /\ link_after = FALSE
         /\ client' = NoClient
         /\ connected_device' = None
         /\ event_loop' = None
         /\ last' = Op("disconnect", 0, "True", [client |-> client, issued |-> FALSE, active_at_disconnect |-> {}])
         /\ UNCHANGED <<mock_data_task, tasks, clients>>

disconnect_device(fail, link_after) ==
    /\ IF is_test_mode
       THEN fail = 0 /\ link_after = FALSE /\ disconnect_test
       ELSE disconnect_real(fail, link_after)
    /\ UNCHANGED <<is_test_mode, runner, metrics, now, ticks, inbox, app, logged>>

Disconnect ==
    \E fail \in 0 .. 4, link_after \in BOOLEAN : disconnect_device(fail, link_after)

---------------------------------------------------------------------------
(* The environment *)

TickSteps == {RETENTION_SECONDS, RETENTION_SECONDS + MOCK_PERIOD}

\* Time passes with nothing happening: the length of the retention window, or more.
Tick ==
    /\ ticks < MaxTicks
    /\ \E step \in TickSteps : now' = now + step
    /\ ticks' = ticks + 1
    /\ UNCHANGED <<is_test_mode, runner, mgr, metrics, clients, tasks, inbox, last, app, logged>>

\* The payloads of the notifications of a session: the heart-rate example and an
\* indoor-bike payload cut short.
NotifyPayloads == {HR_EXAMPLE, <<64, 0>>}

\* Some client, the manager's or one it no longer refers to, has a live subscription
\* to the characteristic.
Subscribed(char) == \E i \in 1 .. Len(clients) : clients[i].link /\ char \in clients[i].subs

\* A device sends a notification and the transport calls the handler registered for
\* its characteristic.
NotifyHeartRate ==
    /\ Subscribed(HEART_RATE_MEASUREMENT_UUID)
    /\ Room({"heart_rate"})
    /\ \E data \in NotifyPayloads : handle_heart_rate_data(data)
    /\ UNCHANGED <<is_test_mode, runner, mgr, clients, tasks, now, ticks, inbox, app>>

NotifyIndoorBike ==
    /\ Subscribed(INDOOR_BIKE_DATA_UUID)
    /\ Room(BikeMetrics)
    /\ \E data \in NotifyPayloads : handle_indoor_bike_data(data)
    /\ UNCHANGED <<is_test_mode, runner, mgr, clients, tasks, now, ticks, inbox, app>>

\* The link of a client drops (the device is switched off or goes out of range);
\* its subscriptions end with it.
LinkLost ==
    /\ \E i \in 1 .. Len(clients) :
          /\ clients[i].link
          /\ clients' = [clients EXCEPT ![i] = [@ EXCEPT !.link = FALSE, !.subs = {}]]
    /\ UNCHANGED <<is_test_mode, runner, mgr, metrics, tasks, now, ticks, inbox, last, app, logged>>

\* BLEManager.__init__
Init ==
    /\ is_test_mode \in BOOLEAN
    /\ runner \in {"app", "loop"}
    /\ client = NoClient
    /\ connected_device = None
    /\ event_loop = None
    /\ mock_data_task = NoTask
    /\ metrics = EmptyStore
    /\ clients = <<>>
    /\ tasks = <<>>
    /\ now = last_update
    /\ ticks = 0
    /\ inbox = <<>>
    /\ pc = Idle
    /\ snapshot = NoSnapshot
    /\ logged = {}
    /\ last = NoOp

\* The life of the manager: connects and disconnects with every failure of the
\* transport and of the callback, the generator tasks, and links that drop.
Next ==
    \/ Connect
    \/ Disconnect
    \/ MockLoop
    \/ LinkLost

Spec == Init /\ [][Next]_vars

\* The simulated mode alone, under both ways of running the coroutines.
InitSim == Init /\ is_test_mode = TRUE

NextSim ==
    \/ Connect
    \/ Disconnect
    \/ MockLoop

SpecSim == InitSim /\ [][NextSim]_vars

\* The event loop runs every task that is ready to run: a task on a running loop
\* that can take a step eventually takes it.  Nothing obliges the caller to connect
\* or to disconnect.
FairTasks == \A i \in 1 .. MaxTasks : WF_vars(i <= Len(tasks) /\ MockStep(i))

SpecSimLive == InitSim /\ [][NextSim]_vars /\ FairTasks

\* The application offers Connect only while it shows no connected device
\* (main.py), and Disconnect while it shows one; here nothing fails.
SessionConnect ==
    /\ ~is_connected
    /\ connect_device("combo", None, 0, "bleak")

SessionDisconnect ==
    /\ is_connected
    /\ disconnect_device(0, FALSE)

\* The store over the sessions of the application: notifications, generator passes
\* and the passing of time.
NextStore ==
    \/ SessionConnect
    \/ SessionDisconnect
    \/ MockLoop
    \/ NotifyHeartRate
    \/ NotifyIndoorBike
    \/ Tick

SpecStore == Init /\ [][NextStore]_vars

\* A connected real-transport session with one notification about to be delivered.
InitDecode ==
    /\ is_test_mode = FALSE
    /\ runner \in {"app", "loop"}
    /\ clients = <<[dev |-> "combo", link |-> TRUE, subs |-> {INDOOR_BIKE_DATA_UUID, HEART_RATE_MEASUREMENT_UUID}]>>
    /\ client = 1
    /\ connected_device = "combo"
    /\ event_loop = IF runner = "app" THEN "closed" ELSE "running"
    /\ mock_data_task = NoTask
    /\ tasks = <<>>
    /\ metrics \in {EmptyStore, OneEachStore}
    /\ now = 5
    /\ ticks = 0
    /\ inbox \in {<<[char |-> c, data |-> d]>> : c \in {HEART_RATE_MEASUREMENT_UUID, INDOOR_BIKE_DATA_UUID}, d \in AllPayloads}
    /\ pc = Idle
    /\ snapshot = NoSnapshot
    /\ logged = {}
    /\ last = NoOp

NextDecode == DispatchHeartRate \/ DispatchIndoorBike

SpecDecode == InitDecode /\ [][NextDecode]_vars

\* The notifications that decode, one per characteristic.
ValidNotifications ==
    {[char |-> HEART_RATE_MEASUREMENT_UUID, data |-> HR_EXAMPLE],
     [char |-> INDOOR_BIKE_DATA_UUID, data |-> BIKE_EXAMPLE]}

\* A connected real-transport session about to receive two notifications: one with
\* any payload, then one that decodes.
InitNotify ==
    /\ is_test_mode = FALSE
    /\ runner \in {"app", "loop"}
    /\ clients = <<[dev |-> "combo", link |-> TRUE, subs |-> {INDOOR_BIKE_DATA_UUID, HEART_RATE_MEASUREMENT_UUID}]>>
    /\ client = 1
    /\ connected_device = "combo"
    /\ event_loop = IF runner = "app" THEN "closed" ELSE "running"
    /\ mock_data_task = NoTask
    /\ tasks = <<>>
    /\ metrics = EmptyStore
    /\ now = 5
    /\ ticks = 0
    /\ inbox \in {<<[char |-> c, data |-> d], second>> :
                     c \in {HEART_RATE_MEASUREMENT_UUID, INDOOR_BIKE_DATA_UUID},
                     d \in AllPayloads, second \in ValidNotifications}
    /\ pc = Idle
    /\ snapshot = NoSnapshot
    /\ logged = {}
    /\ last = NoOp

NextNotify == DispatchHeartRate \/ DispatchIndoorBike

SpecNotify == InitNotify /\ [][NextNotify]_vars

---------------------------------------------------------------------------
(* End & Save Workout *)

\* What self.dbx.files_upload does: it returns, or raises an ApiError or something else.
Uploads == {"ok", "api_error", "other_error"}

\* The metrics save_workout_data writes into the file: those with values and timestamps.
WorkoutMetrics(metrics_) ==
    [m \in {k \in DOMAIN metrics_ : metrics_[k].values # <<>> /\ metrics_[k].timestamps # <<>>}
        |-> metrics_[m]]

\* StorageManager.save_workout_data: False without a Dropbox client, False for
\* whatever the upload raises, True otherwise.
save_workout_data(metrics_, authenticated, upload) ==
    IF ~authenticated THEN "False"
    ELSE IF upload = "ok" THEN "True" ELSE "False"

\* The for loop after a save with only the values list replaced.
Reset_values(store) == [m \in DOMAIN store |-> [store[m] EXCEPT !.values = <<>>]]

\* for metric in ble_manager.metrics: ...['values'] = []; ...['timestamps'] = []
Reset(store) == [m \in DOMAIN store |-> [values |-> <<>>, timestamps |-> <<>>]]

\* The button 'End & Save Workout' of render_current_session_controls, shown while
\* a device is connected.
EndAndSave ==
    /\ is_connected
    /\ \E authenticated \in BOOLEAN, upload \in Uploads :
          LET success == IF authenticated
                         THEN save_workout_data(metrics, authenticated, upload)
                         ELSE "unauthenticated"
          IN  /\ metrics' = IF success = "True" THEN Reset(metrics) ELSE metrics
              /\ last' = Op("save", [authenticated |-> authenticated, upload |-> upload], success,
                            [uploaded |-> IF success = "True" THEN WorkoutMetrics(metrics) ELSE <<>>])
    /\ UNCHANGED <<is_test_mode, runner, mgr, clients, tasks, now, ticks, inbox, app, logged>>

\* Sessions with their notifications, ended and saved any number of times.  Under
\* run_async the generator makes its pass inside the connect; its passes on a running
\* loop are part of SpecStore.
NextSave ==
    \/ SessionConnect
    \/ SessionDisconnect
    \/ NotifyHeartRate
    \/ NotifyIndoorBike
    \/ EndAndSave

SpecSave == Init /\ [][NextSave]_vars

---------------------------------------------------------------------------
(* The updates of the store, statement by statement *)

\* An update of the store is a list of statements, each on one list of one metric.
\* The producer is the context in which the transport runs a notification handler;
\* the script is the thread that runs 'End & Save Workout'.  Neither holds a lock: a
\* statement of one may run between two of the other, and a reader may look at the
\* store between any two statements.  The generator task runs on the event loop,
\* which the application runs inside its script (run_async): its passes are steps of
\* the script and do not interleave with it.
Statement(stmt, metric, value) == [stmt |-> stmt, metric |-> metric, value |-> value]

\* ...['values'].append(value); ...['timestamps'].append(current_time), per metric.
RECURSIVE AppendStatements(_, _)
AppendStatements(metrics_data, current_time) ==
    IF metrics_data = <<>> THEN <<>>
    ELSE <<Statement("values.append", Head(metrics_data)[1], Head(metrics_data)[2]),
           Statement("timestamps.append", Head(metrics_data)[1], current_time)>>
         \o AppendStatements(Tail(metrics_data), current_time)

\* ...['values'] = []; ...['timestamps'] = [], per metric, in the order of the dict.
METRIC_ORDER == <<"heart_rate", "power", "avg_power", "cadence", "avg_cadence",
                  "speed", "avg_speed", "distance", "resistance">>

RECURSIVE ResetStatements(_)
ResetStatements(order) ==
    IF order = <<>> THEN <<>>
    ELSE <<Statement("values = []", Head(order), 0), Statement("timestamps = []", Head(order), 0)>>
         \o ResetStatements(Tail(order))

\* The store after a statement.
Run(store, st) ==
    CASE st.stmt = "values.append" -> [store EXCEPT ![st.metric].values = Append(@, st.value)]
      [] st.stmt = "timestamps.append" -> [store EXCEPT ![st.metric].timestamps = Append(@, st.value)]
      [] st.stmt = "values = []" -> [store EXCEPT ![st.metric].values = <<>>]
      [] st.stmt = "timestamps = []" -> [store EXCEPT ![st.metric].timestamps = <<>>]
      [] OTHER -> store

\* One statement of a thread.
Step(thread) ==
    /\ pc[thread] # <<>>
    /\ metrics' = Run(metrics, Head(pc[thread]))
    /\ pc' = [pc EXCEPT ![thread] = Tail(@)]
    /\ UNCHANGED <<is_test_mode, runner, mgr, clients, tasks, now, ticks, inbox, snapshot, logged, last>>

ProducerStep == Step("producer")

ScriptStep == Step("script")

\* No series of the store is full; a series in the middle of an append counts its
\* longer list.
RoomInLists ==
    \A m \in METRICS : Len(metrics[m].values) < MaxSamples /\ Len(metrics[m].timestamps) < MaxSamples

\* A notification arrives and its handler starts.
HandlerStart ==
    /\ ~is_test_mode
    /\ pc.producer = <<>>
    /\ RoomInLists
    /\ \E data \in NotifyPayloads :
          \/ /\ Subscribed(HEART_RATE_MEASUREMENT_UUID)
             /\ Len(data) >= 2
             /\ pc' = [pc EXCEPT !.producer =
                          AppendStatements(<< <<"heart_rate", Num(HeartRateOf(data), 1)>> >>, now)]
             /\ logged' = Logged("hr", HandlerResult(TRUE))
          \/ /\ Subscribed(INDOOR_BIKE_DATA_UUID)
             /\ Len(data) >= 1
             /\ pc' = [pc EXCEPT !.producer =
                          AppendStatements(ParseFields(data, 1, START_INDEX, <<>>), now)]
             /\ logged' = Logged("bike", HandlerResult(TRUE))
    /\ UNCHANGED <<is_test_mode, runner, mgr, metrics, clients, tasks, now, ticks, inbox, snapshot, last>>

\* 'End & Save Workout' with a save that returned True: the clearing starts.
ResetStart ==
    /\ is_connected
    /\ pc.script = <<>>
    /\ save_workout_data(metrics, TRUE, "ok") = "True"
    /\ pc' = [pc EXCEPT !.script = ResetStatements(METRIC_ORDER)]
    /\ UNCHANGED <<is_test_mode, runner, mgr, metrics, clients, tasks, now, ticks, inbox, snapshot, logged, last>>

\* A connected real-transport session.
InitRace ==
    /\ is_test_mode = FALSE
    /\ runner \in {"app", "loop"}
    /\ event_loop = IF runner = "app" THEN "closed" ELSE "running"
    /\ connected_device = "combo"
    /\ clients = <<[dev |-> "combo", link |-> TRUE,
                    subs |-> {INDOOR_BIKE_DATA_UUID, HEART_RATE_MEASUREMENT_UUID}]>>
    /\ client = 1
    /\ tasks = <<>>
    /\ mock_data_task = NoTask
    /\ metrics = EmptyStore
    /\ now = last_update
    /\ ticks = 0
    /\ inbox = <<>>
    /\ pc = Idle
    /\ snapshot = NoSnapshot
    /\ logged = {}
    /\ last = NoOp

NextRace ==
    \/ HandlerStart
    \/ ResetStart
    \/ ProducerStep
    \/ ScriptStep

SpecRace == InitRace /\ [][NextRace]_vars

---------------------------------------------------------------------------
(* get_metrics_data *)

\* What the holder of a snapshot reads in it.  get_metrics_data returns self.metrics,
\* the dict of the store itself: reading the snapshot is reading the store.
Contents(snap) == IF snap.ref = "self.metrics" THEN metrics ELSE snap.taken

\* get_metrics_data; `taken` keeps the store as it was at the call.
get_metrics_data == [ref |-> "self.metrics", taken |-> metrics]

\* The reader asks for the metrics.
GetMetricsData ==
    /\ snapshot' = get_metrics_data
    /\ last' = Op("snapshot", None, "self.metrics", None)
    /\ UNCHANGED <<is_test_mode, runner, mgr, metrics, clients, tasks, now, ticks, inbox, pc, logged>>

\* The holder of a snapshot adds a sample to a series of it: an append to the lists
\* the snapshot refers to, which are the lists of the store.  `taken` follows what the
\* holder did.
MutateSnapshot ==
    /\ snapshot.ref # None
    /\ Room({"heart_rate"})
    /\ Len(snapshot.taken["heart_rate"].values) < MaxSamples
    /\ metrics' = IF snapshot.ref = "self.metrics"
                  THEN [metrics EXCEPT !["heart_rate"] = AppendSample(@, Num(0, 1), now)]
                  ELSE metrics
    /\ snapshot' = [snapshot EXCEPT !.taken["heart_rate"] = AppendSample(@, Num(0, 1), now)]
    /\ last' = Op("mutate", "heart_rate", None, None)
    /\ UNCHANGED <<is_test_mode, runner, mgr, clients, tasks, now, ticks, inbox, pc, logged>>

\* Sessions with their notifications and saves, and a reader that takes snapshots.
NextSnapshot ==
    \/ SessionConnect
    \/ NotifyHeartRate
    \/ NotifyIndoorBike
    \/ EndAndSave
    \/ GetMetricsData
    \/ MutateSnapshot

SpecSnapshot == Init /\ [][NextSnapshot]_vars

---------------------------------------------------------------------------
(* Scanning *)

\* Most devices in one raw discovery result.
MaxDevices == 3

\* Text is a sequence of one-character strings, so that lower() and `in` are computed.
UPPER == <<"A", "B", "C", "D", "E", "F", "G", "H", "I", "J", "K", "L", "M",
           "N", "O", "P", "Q", "R", "S", "T", "U", "V", "W", "X", "Y", "Z">>
LOWER == <<"a", "b", "c", "d", "e", "f", "g", "h", "i", "j", "k", "l", "m",
           "n", "o", "p", "q", "r", "s", "t", "u", "v", "w", "x", "y", "z">>

\* str.lower() left out: the text as it is.
lower_identity(text) == text

\* str.lower()
lower(text) ==
    [k \in 1 .. Len(text) |->
        IF \E j \in 1 .. Len(UPPER) : UPPER[j] = text[k]
        THEN LOWER[CHOOSE j \in 1 .. Len(UPPER) : UPPER[j] = text[k]]
        ELSE text[k]]

\* text.startswith(keyword)
RECURSIVE StartsWith(_, _)
StartsWith(text, keyword) ==
    IF keyword = <<>> THEN TRUE
    ELSE IF text = <<>> THEN FALSE
    ELSE Head(text) = Head(keyword) /\ StartsWith(Tail(text), Tail(keyword))

\* keyword in text
RECURSIVE In(_, _)
In(keyword, text) ==
    IF StartsWith(text, keyword) THEN TRUE
    ELSE IF text = <<>> THEN FALSE
    ELSE In(keyword, Tail(text))

\* ['bike', 'cycle', 'fitness', 'heart', 'polar', 'wahoo', 'garmin']
KEYWORDS == << <<"b", "i", "k", "e">>, <<"c", "y", "c", "l", "e">>,
               <<"f", "i", "t", "n", "e", "s", "s">>, <<"h", "e", "a", "r", "t">>,
               <<"p", "o", "l", "a", "r">>, <<"w", "a", "h", "o", "o">>,
               <<"g", "a", "r", "m", "i", "n">> >>

\* A device name is a text or None.
NoName == [none |-> TRUE, text |-> <<>>]
Name(text) == [none |-> FALSE, text |-> text]

\* str(device.name): the text "None" for a device without a name.
str(name) == IF name.none THEN <<"N", "o", "n", "e">> ELSE name.text

\* device.name or 'Unknown Device'
NameOrUnknown(name) ==
    IF name.none \/ name.text = <<>>
    THEN <<"U", "n", "k", "n", "o", "w", "n", " ", "D", "e", "v", "i", "c", "e">>
    ELSE name.text

\* The condition of the if in the for loop of scan_devices.
IsFitness(device) ==
    LET device_name == lower(str(device.name))
    IN  device_name # <<>> /\ \E k \in 1 .. Len(KEYWORDS) : In(KEYWORDS[k], device_name)

\* for device in devices: ... fitness_devices.append({...})
RECURSIVE FitnessDevices(_)
FitnessDevices(devices) ==
    IF devices = <<>> THEN <<>>
    ELSE (IF IsFitness(Head(devices))
          THEN <<[name |-> NameOrUnknown(Head(devices).name),
                  address |-> Head(devices).address,
                  rssi |-> Head(devices).rssi]>>
          ELSE <<>>) \o FitnessDevices(Tail(devices))

\* The place of x in a list sorted by rssi, strongest first: behind every entry that
\* is at least as strong (the sort is stable).
RECURSIVE Insert(_, _)
Insert(sorted, x) ==
    IF sorted = <<>> THEN <<x>>
    ELSE IF Head(sorted).rssi >= x.rssi THEN <<Head(sorted)>> \o Insert(Tail(sorted), x)
    ELSE <<x>> \o sorted

\* sorted(fitness_devices, key=lambda x: x['rssi'], reverse=True)
RECURSIVE SortedByRssi(_)
SortedByRssi(devices) ==
    IF devices = <<>> THEN <<>>
    ELSE Insert(SortedByRssi(SubSeq(devices, 1, Len(devices) - 1)), devices[Len(devices)])

\* get_mock_devices with its two entries the other way round.
get_mock_devices_swapped ==
    <<[name |-> "Mock Smart Bike", address |-> "66:77:88:99:AA:BB", rssi |-> -70],
      [name |-> "Mock Heart Rate Monitor", address |-> "00:11:22:33:44:55", rssi |-> -65]>>

get_mock_devices ==
    <<[name |-> "Mock Heart Rate Monitor", address |-> "00:11:22:33:44:55", rssi |-> -65],
      [name |-> "Mock Smart Bike", address |-> "66:77:88:99:AA:BB", rssi |-> -70]>>

Platforms == {"Linux", "Windows", "Darwin", "Java"}

\* What ctypes.windll.bthprops.BluetoothIsDiscoverable(None) may return.
IsDiscoverable == {-1, 0, 1}

\* check_bluetooth_availability: "True" or "False", or "None" when no branch of the
\* if chain returns; whatever the probe raises is caught and gives "False".
check_bluetooth_availability(system, raises, discoverable) ==
    IF system \in {"Linux", "Windows", "Darwin"} /\ raises THEN "False"
    ELSE CASE system = "Linux" -> "True"
           [] system = "Windows" -> IF discoverable >= 0 THEN "True" ELSE "False"
           [] system = "Darwin" -> "True"
           [] OTHER -> "None"

\* A probe that only a "False" answer counts as unavailable.
NotAvailableIfFalse(available) == available = "False"

\* `if not await self.check_bluetooth_availability()`
NotAvailable(available) == available # "True"

\* The devices that can be around.
WAHOO_KICKR == <<"W", "a", "h", "o", "o", " ", "K", "I", "C", "K", "R">>
MY_HEADPHONES == <<"M", "y", " ", "H", "e", "a", "d", "p", "h", "o", "n", "e", "s">>
POLAR_H10 == <<"P", "O", "L", "A", "R", " ", "H", "1", "0">>
BICYCLE == <<"b", "i", "c", "y", "c", "l", "e">>

DevicePool ==
    {[name |-> Name(WAHOO_KICKR), address |-> "a1", rssi |-> -50],
     [name |-> Name(MY_HEADPHONES), address |-> "a2", rssi |-> -40],
     [name |-> Name(POLAR_H10), address |-> "a3", rssi |-> -60],
     [name |-> Name(BICYCLE), address |-> "a4", rssi |-> -50],
     [name |-> NoName, address |-> "a5", rssi |-> -30]}

\* The raw results BleakScanner.discover() may give: lists of distinct devices.
RawResults ==
    {raw \in UNION {[1 .. n -> DevicePool] : n \in 0 .. MaxDevices} :
        \A i, j \in 1 .. Len(raw) : i # j => raw[i] # raw[j]}

\* What BleakScanner.discover() does: it returns a raw result, or it raises a
\* BleakError ("bleak") or something else ("other").
Discoveries ==
    {[kind |-> "ok", raw |-> raw] : raw \in RawResults}
        \cup {[kind |-> k, raw |-> <<>>] : k \in {"bleak", "other"}}

NoDiscovery == [kind |-> None, raw |-> <<>>]

\* scan_devices, given the answer of the probe and what discover() does if called.
scan_devices(available, discover) ==
    LET probed == ~is_test_mode
        discovered == ~is_test_mode /\ ~NotAvailable(available)
        ret == IF is_test_mode \/ (discovered /\ discover.kind = "ok") THEN "list" ELSE "BNA"
        devices == IF is_test_mode THEN get_mock_devices
                   ELSE IF ret = "list" THEN SortedByRssi(FitnessDevices(discover.raw))
                   ELSE <<>>
    IN  /\ last' = Op("scan", discover.raw, ret,
                      [available |-> IF probed THEN available ELSE None,
                       probed |-> probed, discovered |-> discovered,
                       discover |-> discover.kind,
                       devices |-> devices])
        /\ UNCHANGED <<is_test_mode, runner, mgr, metrics, clients, tasks, now, ticks, inbox, app, logged>>

\* The platforms, each with a probe that works or raises.
Probes == Platforms \X BOOLEAN \X IsDiscoverable

\* The probe runs in real-transport mode only, and discover() only if the scan gets
\* that far.
Scan ==
    IF is_test_mode
    THEN scan_devices(None, NoDiscovery)
    ELSE \E available \in {check_bluetooth_availability(p[1], p[2], p[3]) : p \in Probes} :
            IF NotAvailable(available)
            THEN scan_devices(available, NoDiscovery)
            ELSE \E discover \in Discoveries : scan_devices(available, discover)

\* Scans in any session state, any number of times.
NextScan ==
    \/ Scan
    \/ SessionConnect
    \/ SessionDisconnect

SpecScan == Init /\ [][NextScan]_vars

---------------------------------------------------------------------------
(* The workout summary *)

\* Most samples in a series of a summarised snapshot.
MaxSnap == 2

\* x < y for rationals with positive denominators.
LessR(x, y) == x.n * y.d < y.n * x.d

\* max(values) of a non-empty list.
RECURSIVE MaxR(_)
MaxR(values) ==
    IF Len(values) = 1 THEN values[1]
    ELSE LET rest == MaxR(Tail(values))
         IN  IF LessR(Head(values), rest) THEN rest ELSE Head(values)

\* sum(values) / len(values)
MeanR(values) == LET sum == SumR(values) IN Num(sum.n, sum.d * Len(values))

\* int(x) of a value that is not negative: the fraction is cut off.
int(x) == Num(x.n \div x.d, 1)

\* f"{x:.1f}" and f"{x:.2f}": x to the nearest multiple of 1/scale, an exact tie to the
\* even one.
Fixed(x, scale) ==
    LET q == (x.n * scale) \div x.d
        r == (x.n * scale) % x.d
    IN  Num(IF 2 * r > x.d \/ (2 * r = x.d /\ q % 2 = 1) THEN q + 1 ELSE q, scale)

\* get_metric_unit
get_metric_unit(metric_name) ==
    CASE metric_name = "heart_rate" -> "bpm"
      [] metric_name = "power" -> "W"
      [] metric_name = "cadence" -> "rpm"
      [] metric_name = "speed" -> "km/h"
      [] OTHER -> ""

\* A reported figure: the number printed and the unit printed behind it.
Figure(value, unit) == [value |-> value, unit |-> unit]

\* The two entries avg_<metric> and max_<metric> of one metric.
Stats(metric_name, values) ==
    IF metric_name = "speed"
    THEN [avg |-> Figure(Fixed(MeanR(values), 10), "km/h"),
          max |-> Figure(Fixed(MaxR(values), 10), "km/h")]
    ELSE [avg |-> Figure(int(MeanR(values)), get_metric_unit(metric_name)),
          max |-> Figure(int(MaxR(values)), get_metric_unit(metric_name))]

\* max(timestamps) - min(timestamps) of a list of numbers.
RECURSIVE MaxOf(_)
MaxOf(q) == IF Len(q) = 1 THEN q[1] ELSE Max(Head(q), MaxOf(Tail(q)))

RECURSIVE MinOf(_)
MinOf(q) == IF Len(q) = 1 THEN q[1] ELSE Min(Head(q), MinOf(Tail(q)))

\* The timestamps of the first series that has any, whatever the metric.
DurationSeries_any(metrics_) ==
    IF \E m \in DOMAIN metrics_ : metrics_[m].timestamps # <<>>
    THEN metrics_[CHOOSE m \in DOMAIN metrics_ : metrics_[m].timestamps # <<>>].timestamps
    ELSE <<>>

\* metrics.get('heart_rate', {}).get('timestamps'): the series that gives the duration.
DurationSeries(metrics_) ==
    IF "heart_rate" \in DOMAIN metrics_ THEN metrics_["heart_rate"].timestamps ELSE <<>>

\* calculate_workout_summary: the entries avg_<m> and max_<m> of every metric but
\* distance that has values, the entry distance if the metric is there, and the
\* duration as minutes and seconds.
calculate_workout_summary(workout_data) ==
    LET metrics_ == workout_data.metrics
        timestamps == DurationSeries(metrics_)
        duration_seconds == IF timestamps # <<>> THEN MaxOf(timestamps) - MinOf(timestamps) ELSE 0
    IN  [stats |-> [m \in {k \in DOMAIN metrics_ : k # "distance" /\ metrics_[k].values # <<>>}
                        |-> Stats(m, metrics_[m].values)],
         distance |-> IF "distance" \in DOMAIN metrics_
                      THEN LET values == metrics_["distance"].values
                               max_distance == IF values = <<>> THEN Num(0, 1000)
                                               ELSE Num(MaxR(values).n, MaxR(values).d * 1000)
                           IN  <<Figure(Fixed(max_distance, 100), "km")>>
                      ELSE <<>>,
         duration |-> [minutes |-> duration_seconds \div 60, seconds |-> duration_seconds % 60]]

\* The values of the summarised series: whole numbers and a half.
SnapValues == {Num(100, 1), Num(141, 1), Num(151, 2)}

\* The seconds between two samples of a summarised series.
SnapStrides == {30, 45}

\* The series of up to MaxSnap samples, the first at time 0.
SnapSeries ==
    {[values |-> values, timestamps |-> [k \in 1 .. Len(values) |-> (k - 1) * stride]] :
        values \in UNION {[1 .. n -> SnapValues] : n \in 0 .. MaxSnap}, stride \in SnapStrides}

\* A series, or nothing where the snapshot has no entry for the metric.
SnapOptions == {<<>>} \cup {<<series>> : series \in SnapSeries}

\* The example of the specification.
SUMMARY_EXAMPLE ==
    [m \in {"heart_rate"} |->
        [values |-> <<Num(100, 1), Num(140, 1), Num(120, 1)>>, timestamps |-> <<0, 30, 60>>]]

\* A snapshot with a heart-rate series, or none, and with the series of a bike (power,
\* speed and distance alike), or none.
Snapshot(hr, bike) ==
    [m \in (IF hr = <<>> THEN {} ELSE {"heart_rate"})
            \cup (IF bike = <<>> THEN {} ELSE {"power", "speed", "distance"})
        |-> IF m = "heart_rate" THEN hr[1] ELSE bike[1]]

Snapshots == {Snapshot(hr, bike) : hr \in SnapOptions, bike \in SnapOptions} \cup {SUMMARY_EXAMPLE}

\* A workout has been loaded and is about to be summarised.
InitSummary ==
    /\ is_test_mode \in BOOLEAN
    /\ runner \in {"app", "loop"}
    /\ client = NoClient
    /\ connected_device = None
    /\ event_loop = None
    /\ mock_data_task = NoTask
    /\ metrics = EmptyStore
    /\ clients = <<>>
    /\ tasks = <<>>
    /\ now = last_update
    /\ ticks = 0
    /\ inbox \in {<<[metrics |-> loaded]>> : loaded \in Snapshots}
    /\ pc = Idle
    /\ snapshot = NoSnapshot
    /\ logged = {}
    /\ last = NoOp

\* summary = calculate_workout_summary(workout_data)
Summarize ==
    /\ inbox # <<>>
    /\ "metrics" \in DOMAIN Head(inbox)
    /\ last' = Op("summary", Head(inbox).metrics, calculate_workout_summary(Head(inbox)), None)
    /\ inbox' = Tail(inbox)
    /\ UNCHANGED <<is_test_mode, runner, mgr, metrics, clients, tasks, now, ticks, app, logged>>

NextSummary == Summarize

SpecSummary == InitSummary /\ [][NextSummary]_vars

---------------------------------------------------------------------------
(* The decoder's contract, stated independently of the code's cursor *)

BITS == 1 .. 7
SpecMetric == [b \in BITS |-> CASE b = 1 -> "avg_speed" [] b = 2 -> "cadence" [] b = 3 -> "avg_cadence"
                                [] b = 4 -> "distance" [] b = 5 -> "resistance" [] b = 6 -> "power"
                                [] b = 7 -> "avg_power"]
SpecWidth == [b \in BITS |-> IF b = 4 THEN 3 ELSE 2]
SpecScale == [b \in BITS |-> CASE b = 1 -> 100 [] b \in {2, 3} -> 2 [] OTHER -> 1]

\* The offset of the field of `bit`: 2 plus the widths of the fields present before it.
RECURSIVE SpecOffset(_, _)
SpecOffset(flags, bit) ==
    IF bit = 1 THEN 2
    ELSE SpecOffset(flags, bit - 1) + (IF BitSet(flags, bit - 1) THEN SpecWidth[bit - 1] ELSE 0)

\* The little-endian unsigned integer of w bytes at offset off.
RECURSIVE LittleEndianAt(_, _, _)
LittleEndianAt(data, off, w) ==
    IF w = 0 THEN 0 ELSE data[off + 1] + 256 * LittleEndianAt(data, off + 1, w - 1)

Announced(flags) == {b \in BITS : BitSet(flags, b)}
FieldFits(data, b) == SpecOffset(data[1], b) + SpecWidth[b] <= Len(data)
LongEnough(data) == Len(data) >= 1 /\ \A b \in Announced(data[1]) : FieldFits(data, b)
Truncated(data) == Len(data) >= 1 /\ \E b \in Announced(data[1]) : ~FieldFits(data, b)

LastValue(m) == metrics[m].values[Len(metrics[m].values)]

\* C1: for every indoor-bike payload long enough for the fields its flag byte announces,
\* the handler appends one sample, stamped with the time of the notification, to exactly
\* the metrics whose flag bit is set; the value is the little-endian unsigned integer at
\* the field's offset (2 plus the widths of the fields present before it) over its scale;
\* every other series is left as it was.
C1_DecodeIndoorBike ==
    (last.op = "bike" /\ LongEnough(last.arg)) =>
        \A m \in METRICS :
            IF \E b \in Announced(last.arg[1]) : SpecMetric[b] = m
            THEN LET b == CHOOSE b \in Announced(last.arg[1]) : SpecMetric[b] = m
                 IN  metrics[m] = AppendSample(last.pre[m],
                                     Num(LittleEndianAt(last.arg, SpecOffset(last.arg[1], b), SpecWidth[b]),
                                         SpecScale[b]),
                                     last.time)
            ELSE metrics[m] = last.pre[m]

\* The specification's example has been decoded: cadence 100/2 rpm and power 180 W.
C1_Witness ==
    /\ last.op = "bike" /\ last.arg = BIKE_EXAMPLE
    /\ last.pre = OneEachStore
    /\ LastValue("cadence") = Num(100, 2) /\ LastValue("power") = Num(180, 1)
    /\ Len(metrics["cadence"].values) = 2 /\ metrics["distance"] = last.pre["distance"]

\* C2: an indoor-bike payload whose flag byte announces a field that extends beyond the
\* end of the payload is rejected with a decode error and leaves the store as it was.
C2_TruncatedRejected ==
    (last.op = "bike" /\ Truncated(last.arg)) => (last.ret = "decode_error" /\ metrics = last.pre)

\* C3: for every heart-rate payload of at least 2 bytes the handler appends exactly one
\* sample to heart_rate, the byte at offset 1, whatever byte 0 is, and changes no other series.
C3_DecodeHeartRate ==
    (last.op = "hr" /\ Len(last.arg) >= 2) =>
        metrics = [last.pre EXCEPT !["heart_rate"] = AppendSample(@, Num(last.arg[2], 1), last.time)]

\* The payload [0x00, 0x8C] has been handled and has given 140.
C3_Witness ==
    /\ last.op = "hr" /\ last.arg = HR_EXAMPLE
    /\ LastValue("heart_rate") = Num(140, 1)
    /\ Len(metrics["heart_rate"].values) = Len(last.pre["heart_rate"].values) + 1

---------------------------------------------------------------------------
(* Retention *)

Timestamps(m) == Range(metrics[m].timestamps)

\* The series the last operation appended to.
AppendedTo == {m \in METRICS : metrics[m] # last.pre[m]}

\* C4: immediately after an append to a series, by a heart-rate notification, an
\* indoor-bike notification or the generator, every sample retained in that series is
\* no older than 300 seconds before the time of the append.
C4_RetentionAfterAppend ==
    (last.op \in {"hr", "bike", "mock", "connect"}) =>
        \A m \in AppendedTo : \A t \in Timestamps(m) : t >= last.time - RETENTION_SECONDS

\* C5: a sample is evicted once the clock has advanced more than 300 seconds past its
\* timestamp, so that no series retains a sample older than that and a series whose
\* samples have all aged out is empty.
C5_AgedOutEvicted ==
    \A m \in METRICS : \A t \in Timestamps(m) : now - t <= RETENTION_SECONDS

---------------------------------------------------------------------------
(* Connecting and disconnecting *)

Disconnected ==
    /\ ~is_connected
    /\ client = NoClient
    /\ connected_device = None
    /\ event_loop = None

\* C6: every call of disconnect_device, the first and one that follows it, returns True
\* and leaves the manager disconnected: is_connected() False and client,
\* connected_device and event_loop None.
C6_DisconnectIdempotent ==
    (last.op = "disconnect") => (last.ret = "True" /\ Disconnected)

\* The subscriptions of a client that still deliver notifications.
ActiveSubs(i) == IF clients[i].link THEN clients[i].subs ELSE {}

\* C7: in real-transport mode every subscription of the session has been stopped when
\* the transport's disconnect is issued, and none is active when disconnect_device returns.
C7_UnsubscribedOnDisconnect ==
    (~is_test_mode /\ last.op = "disconnect" /\ last.aux.client # NoClient) =>
        /\ last.aux.issued => last.aux.active_at_disconnect = {}
        /\ ActiveSubs(last.aux.client) = {}

\* C8: whenever connect_device fails, by raising BluetoothNotAvailableError or by
\* returning False, at whichever step, the session is disconnected afterwards: is_connected()
\* is False, the link of its client is not open and none of its subscriptions is active.
C8_FailedConnectDisconnected ==
    (last.op = "connect" /\ last.ret \in {"BNA", "False"}) =>
        /\ ~is_connected
        /\ client # NoClient => (~clients[client].link /\ ActiveSubs(client) = {})

\* C9: every call of connect_device, in both modes, returns True, returns False or
\* raises BluetoothNotAvailableError; a BleakError of the transport gives the raise, any
\* other failure, of the transport or of the callback, gives False.
C9_ConnectOutcomes ==
    (last.op = "connect") =>
        /\ last.ret \in {"True", "False", "BNA"}
        /\ (last.arg.fail # 0 /\ last.arg.kind = "bleak") => last.ret = "BNA"
        /\ (last.arg.fail # 0 /\ last.arg.kind = "other") => last.ret = "False"
        /\ (last.arg.fail = 0 /\ last.arg.callback = "other") => last.ret = "False"

\* A task that will not run the generator's body again.
Stopped(t) == t.st \in {"cancelling", "cancelled", "finished", "stuck"} \/ t.loop # "running"

\* C10: in simulated mode disconnect_device returns True with is_connected() False and
\* the generator task of the session stopped, under either way of running it.
C10_SimulatedDisconnectStops ==
    (is_test_mode /\ last.op = "disconnect") =>
        /\ last.ret = "True"
        /\ ~is_connected
        /\ last.aux.task # NoTask => Stopped(tasks[last.aux.task])

---------------------------------------------------------------------------
(* The generator of a connected simulated session *)

Samples(m) == Len(metrics[m].values)

\* C11: in simulated mode, once connect_device has returned True with n samples in
\* every series (and room for more), the session eventually holds a further sample in
\* each of the nine series, unless disconnect_device is called first; under either
\* way of running connect_device.
C11_GeneratorKeepsProducing ==
    \A n \in 0 .. MaxSamples - 1 :
        (is_test_mode /\ last.op = "connect" /\ last.ret = "True" /\ is_connected
            /\ \A m \in METRICS : Samples(m) = n)
            ~> (~is_connected \/ last.op = "disconnect" \/ \A m \in METRICS : Samples(m) > n)

---------------------------------------------------------------------------
(* Scanning: the contract *)

\* C12: in real-transport mode a scan probes availability first, and when the probe does
\* not answer available (False, nothing, or a failure inside it) the scan raises
\* BluetoothNotAvailableError and discovery is not called.
C12_ProbeBeforeDiscovery ==
    (~is_test_mode /\ last.op = "scan") =>
        /\ last.aux.probed
        /\ last.aux.available # "True" => (last.ret = "BNA" /\ ~last.aux.discovered)

\* A scan on a platform the probe does not recognise has raised without discovering.
C12_Witness ==
    /\ ~is_test_mode /\ last.op = "scan"
    /\ last.aux.available = "None"
    /\ last.ret = "BNA" /\ ~last.aux.discovered

\* The letter c without its case.
FoldCase(c) == IF \E j \in 1 .. 26 : UPPER[j] = c THEN LOWER[CHOOSE j \in 1 .. 26 : UPPER[j] = c] ELSE c

\* keyword occurs in text at some offset, whatever the case of the text's letters.
Occurs(keyword, text) ==
    \E off \in 0 .. Len(text) - Len(keyword) :
        \A k \in 1 .. Len(keyword) : FoldCase(text[off + k]) = keyword[k]

\* The device has a name and the name contains one of the seven keywords.
Wanted(device) ==
    ~device.name.none /\ \E k \in 1 .. Len(KEYWORDS) : Occurs(KEYWORDS[k], device.name.text)

Descriptor(device) == [name |-> device.name.text, address |-> device.address, rssi |-> device.rssi]

\* C13: for every raw discovery result the scan returns exactly the devices whose name
\* contains, whatever its case, one of the seven keywords, each once, ordered by rssi
\* from strongest to weakest.
C13_FilterAndOrder ==
    (~is_test_mode /\ last.op = "scan" /\ last.aux.discovered /\ last.aux.discover = "ok") =>
        LET devices == last.aux.devices
        IN  /\ last.ret = "list"
            /\ Range(devices) = {Descriptor(last.arg[i]) : i \in {j \in 1 .. Len(last.arg) : Wanted(last.arg[j])}}
            /\ \A i, j \in 1 .. Len(devices) : i < j => devices[i] # devices[j]
            /\ \A i, j \in 1 .. Len(devices) : i < j => devices[i].rssi >= devices[j].rssi

\* A scan that found the headphones, the Polar strap and the Wahoo trainer has returned
\* the trainer and the strap, in that order.
C13_Witness ==
    /\ ~is_test_mode /\ last.op = "scan" /\ last.ret = "list"
    /\ Len(last.arg) = 3
    /\ last.arg[1].name = Name(MY_HEADPHONES) /\ last.arg[2].name = Name(POLAR_H10)
    /\ last.arg[3].name = Name(WAHOO_KICKR)
    /\ Len(last.aux.devices) = 2
    /\ last.aux.devices[1].name = WAHOO_KICKR /\ last.aux.devices[2].name = POLAR_H10

\* C14: in simulated mode every scan, in any session state, returns the two fixed
\* descriptors, 'Mock Heart Rate Monitor' at -65 first and 'Mock Smart Bike' at -70
\* second, and neither probes availability nor discovers.
C14_MockScan ==
    (is_test_mode /\ last.op = "scan") =>
        /\ last.ret = "list"
        /\ Len(last.aux.devices) = 2
        /\ last.aux.devices[1].name = "Mock Heart Rate Monitor" /\ last.aux.devices[1].rssi = -65
        /\ last.aux.devices[2].name = "Mock Smart Bike" /\ last.aux.devices[2].rssi = -70
        /\ last.aux.devices[1].address = "00:11:22:33:44:55"
        /\ last.aux.devices[2].address = "66:77:88:99:AA:BB"
        /\ ~last.aux.probed /\ ~last.aux.discovered

\* A simulated session that is connected has scanned, on a platform without Bluetooth.
C14_Witness ==
    /\ is_test_mode /\ last.op = "scan" /\ is_connected
    /\ Len(last.aux.devices) = 2 /\ last.aux.discover = None

---------------------------------------------------------------------------
(* The workout summary: the contract *)

EqR(x, y) == x.n * y.d = y.n * x.d

\* v is the arithmetic mean of the values.
IsMean(v, values) == EqR(Num(v.n * Len(values), v.d), SumR(values))

\* v is the greatest of the values.
IsMaximum(v, values) ==
    /\ \E k \in 1 .. Len(values) : EqR(v, values[k])
    /\ \A k \in 1 .. Len(values) : ~LessR(v, values[k])

\* C15: for every snapshot the summary reports, for each non-empty series other than
\* distance, the arithmetic mean and the maximum of all its values, and for distance only
\* the maximum divided by 1000, with no average.
C15_MeanAndMax ==
    (last.op = "summary") =>
        LET loaded == last.arg
            summary == last.ret
        IN  /\ \A m \in DOMAIN loaded \ {"distance"} :
                  loaded[m].values # <<>> =>
                      /\ m \in DOMAIN summary.stats
                      /\ IsMean(summary.stats[m].avg.value, loaded[m].values)
                      /\ IsMaximum(summary.stats[m].max.value, loaded[m].values)
            /\ "distance" \notin DOMAIN summary.stats
            /\ ("distance" \in DOMAIN loaded /\ loaded["distance"].values # <<>>) =>
                  /\ Len(summary.distance) = 1
                  /\ \E v \in Range(loaded["distance"].values) :
                        /\ IsMaximum(v, loaded["distance"].values)
                        /\ EqR(summary.distance[1].value, Num(v.n, v.d * 1000))

---------------------------------------------------------------------------
(* End & Save Workout: the contract *)

\* C17: 'End & Save Workout' never raises out of the save; a failure of the storage is
\* reported as False; after a save that returned True every series is empty, values and
\* timestamps; after one that returned False, or without authentication, the store is
\* as it was.
C17_SaveThenClear ==
    (last.op = "save") =>
        /\ last.ret \in {"True", "False", "unauthenticated"}
        /\ (last.arg.authenticated /\ last.arg.upload # "ok") => last.ret = "False"
        /\ last.ret = "True" =>
              \A m \in METRICS : metrics[m].values = <<>> /\ metrics[m].timestamps = <<>>
        /\ last.ret # "True" => metrics = last.pre

\* A store with samples has been saved and is empty.
C17_Witness ==
    /\ last.op = "save" /\ last.ret = "True"
    /\ \E m \in METRICS : last.pre[m].values # <<>>
    /\ metrics = EmptyStore
    /\ last.aux.uploaded # <<>>

---------------------------------------------------------------------------
(* The store as a reader sees it *)

\* C18: in every state a reader can observe, whatever the interleaving of the handlers,
\* the generator and the clearing after a save, the values and the timestamps of each
\* metric have the same length.
C18_ListsSameLength ==
    \A m \in METRICS : Len(metrics[m].values) = Len(metrics[m].timestamps)

---------------------------------------------------------------------------
(* One session at a time *)

\* C19: over any sequence of connect_device and disconnect_device calls at most one
\* connection is live: every transport client whose link is open is the manager's
\* current client, and every generator task that is still running is its current task.
C19_OneLiveConnection ==
    /\ \A i \in 1 .. Len(clients) : clients[i].link => i = client
    /\ \A i \in 1 .. Len(tasks) : ~Stopped(tasks[i]) => i = mock_data_task

---------------------------------------------------------------------------
(* Snapshots *)

\* C20: the snapshot returned by get_metrics_data is a deep copy: what its holder reads
\* in it stays what it was when taken (with the holder's own changes), whatever is
\* appended to or cleared from the store afterwards, and a change the holder makes to
\* the snapshot leaves the store as it was.
C20_SnapshotIsCopy ==
    /\ snapshot.ref # None => Contents(snapshot) = snapshot.taken
    /\ last.op = "mutate" => metrics = last.pre

---------------------------------------------------------------------------
(* is_connected and the synthetic session *)

\* A generator task that exists and has neither finished nor been cancelled: it has
\* not left its loop, and Task.cancel() has not been called on it.
Active(t) == t.st \in {"ready", "sleeping"}

SyntheticSessionActive == \E i \in 1 .. Len(tasks) : Active(tasks[i])

\* C21: in simulated mode, in every reachable state, is_connected() is True if and only
\* if a synthetic session is active: connected_device is not None exactly when a
\* generator task created by connect_device exists that has not finished or been cancelled.
C21_ConnectedIffSessionActive ==
    is_test_mode => (is_connected <=> SyntheticSessionActive)

---------------------------------------------------------------------------
(* Notifications that cannot be decoded *)

\* The handler has returned to the transport: whatever was raised inside it was caught.
Returned(op) == op.ret \in {"ok", "decode_error", "loop_error"}

\* The payload is one the handler of `op` decodes.
Valid(op) == IF op.op = "hr" THEN Len(op.arg) >= 2 ELSE LongEnough(op.arg)

\* The metrics a valid payload of `op` carries a sample for.
Carried(op) ==
    IF op.op = "hr" THEN {"heart_rate"} ELSE {SpecMetric[b] : b \in Announced(op.arg[1])}

====
